---- MODULE Spec2Model ----
(***************************************************************************)
(* Money-muling detection engine (src/detection).  analyze(csv_path) is a  *)
(* batch pipeline: build_graph, the three detectors, score_accounts,       *)
(* filter_false_positives and the report assembly.                         *)
(*                                                                         *)
(* Units.  Timestamps are whole hours since an epoch that falls on a       *)
(* midnight, amounts are whole currency units, and every score (a float    *)
(* rounded to 2 decimals in the code) is an integer number of hundredths   *)
(* of a point: risk_score 91.08 is 9108.  Accounts are positive integers,  *)
(* standing for the ids ACC_01, ACC_02, ...: ascending account id is       *)
(* ascending integer.                                                      *)
(***************************************************************************)
EXTENDS Integers, Sequences, FiniteSets, TLC

(***************************************************************************)
(* Bounds of the model (not program constants).                            *)
(***************************************************************************)
\* longest directed ring the cycle inputs contain (6 exceeds MAX_CYCLE_LENGTH)
MaxRingLen == 6
\* largest number of counterparties the fan inputs give a hub
MaxFan == 11
\* longest pass-through path (in hops) the chain inputs contain
MaxHops == 9
\* widest layer of the layered inputs: MaxWidth^4 directed rings of 5 accounts
MaxWidth == 6

(***************************************************************************)
(* Program constants.                                                      *)
(***************************************************************************)
MIN_CYCLE_LENGTH == 3
MAX_CYCLE_LENGTH == 5
MAX_CYCLE_DAYS == 7
MIN_CYCLE_AMOUNT == 500
SMURF_THRESHOLD == 10
TIME_WINDOW_HOURS == 72
MAX_SHELL_DEGREE == 3
MIN_CHAIN_LENGTH == 3
MAX_CHAIN_LENGTH == 8
WEIGHT_CYCLE == 40
WEIGHT_SMURF == 25
WEIGHT_VELOCITY == 20
WEIGHT_SHELL == 15
WEIGHT_MULTI_DETECT == 10
MERCHANT_MIN_TRANSACTIONS == 50
MERCHANT_MIN_DAYS == 30
\* MERCHANT_SCORE_PENALTY = 0.30, in percent
MERCHANT_SCORE_PENALTY == 30
\* the literal 0.40 of the payroll branch, in percent
PAYROLL_SCORE_PENALTY == 40
\* PAYROLL_AMOUNT_VARIANCE = 0.20, in percent
PAYROLL_AMOUNT_VARIANCE == 20
PAYROLL_MIN_RECEIVERS == 10
MICRO_TXN_CYCLE_MAX == 500
\* accounts scoring below 10 points are dropped by the filter
KEEP_THRESHOLD == 10

(***************************************************************************)
(* Sequence helpers.                                                       *)
(***************************************************************************)
Min(a, b) == IF a <= b THEN a ELSE b

Max(a, b) == IF a >= b THEN a ELSE b

Range(s) == {s[i] : i \in 1..Len(s)}

Contains(s, x) == \E i \in 1..Len(s) : s[i] = x

\* position of the first occurrence of x in s (0 when absent)
IndexOf(s, x) == IF Contains(s, x) THEN CHOOSE i \in 1..Len(s) : s[i] = x /\ \A j \in 1..(i - 1) : s[j] # x ELSE 0

\* s without repeats, first occurrences kept in order: list(dict.fromkeys(s))
Dedup(s) == SelectSeq([i \in 1..Len(s) |-> <<i, s[i]>>], LAMBDA p : \A j \in 1..(p[1] - 1) : s[j] # p[2])

Unique(s) == LET d == Dedup(s) IN [i \in 1..Len(d) |-> d[i][2]]

RECURSIVE SumSeq(_)
\* sum(s), by halves
SumSeq(s) == IF Len(s) = 0 THEN 0 ELSE IF Len(s) = 1 THEN s[1] ELSE SumSeq(SubSeq(s, 1, Len(s) \div 2)) + SumSeq(SubSeq(s, (Len(s) \div 2) + 1, Len(s)))

RECURSIVE Concat(_)
\* the concatenation of a sequence of sequences, by halves
Concat(ss) == IF Len(ss) = 0 THEN <<>> ELSE IF Len(ss) = 1 THEN ss[1] ELSE Concat(SubSeq(ss, 1, Len(ss) \div 2)) \o Concat(SubSeq(ss, (Len(ss) \div 2) + 1, Len(ss)))

MinOf(S) == CHOOSE x \in S : \A y \in S : x <= y

MaxOf(S) == CHOOSE x \in S : \A y \in S : x >= y

\* round(a / b) for a >= 0 and an even b > 0 (halves round up)
RoundDiv(a, b) == (a + (b \div 2)) \div b

\* the sequence f as a list held in memory: its elements are computed once
List(f) == <<>> \o f

\* list.sort(key=...) / sorted(key=...), keys[i] being the key of s[i]: ascending
\* and stable; element i goes to the place after the elements with a smaller key
\* and the earlier ones with its key
SortBy(s, keys) == LET key == List(keys)
                       place == List([i \in 1..Len(s) |-> 1 + Cardinality({j \in 1..Len(s) : key[j] < key[i] \/ (key[j] = key[i] /\ j < i)})])
                       at == [p \in 1..Len(s) |-> CHOOSE i \in 1..Len(s) : place[i] = p]
                   IN [p \in 1..Len(s) |-> s[at[p]]]

\* sorted(key=..., reverse=True): descending, equal keys keep their order
SortByDesc(s, keys) == SortBy(s, [i \in 1..Len(s) |-> 0 - keys[i]])

(***************************************************************************)
(* math.log10, to two decimals: Log10Centi(x) = floor(100 * log10(x)) for  *)
(* an integer x >= 1, from the 4 leading digits of x.                      *)
(***************************************************************************)
Log10Table == <<1024, 1048, 1072, 1097, 1123, 1149, 1175, 1203, 1231, 1259, 1289, 1319, 1349, 1381,
  1413, 1446, 1480, 1514, 1549, 1585, 1622, 1660, 1699, 1738, 1779, 1820, 1863, 1906,
  1950, 1996, 2042, 2090, 2138, 2188, 2239, 2291, 2345, 2399, 2455, 2512, 2571, 2631,
  2692, 2755, 2819, 2885, 2952, 3020, 3091, 3163, 3236, 3312, 3389, 3468, 3549, 3631,
  3716, 3802, 3891, 3982, 4074, 4169, 4266, 4366, 4467, 4571, 4678, 4787, 4898, 5012,
  5129, 5249, 5371, 5496, 5624, 5755, 5889, 6026, 6166, 6310, 6457, 6607, 6761, 6919,
  7080, 7245, 7414, 7586, 7763, 7944, 8129, 8318, 8512, 8710, 8913, 9121, 9333, 9550,
  9773>>

RECURSIVE Digits(_)
\* number of decimal digits of x >= 1
Digits(x) == IF x < 10 THEN 1 ELSE 1 + Digits(x \div 10)

RECURSIVE Pow10(_)
Pow10(n) == IF n = 0 THEN 1 ELSE 10 * Pow10(n - 1)

Log10Centi(x) == LET d == Digits(x) - 1
                     m == IF d <= 3 THEN x * Pow10(3 - d) ELSE x \div Pow10(d - 3)
                 IN 100 * d + Cardinality({j \in 1..Len(Log10Table) : Log10Table[j] <= m})

\* min(cap, math.log10(max(total_amount, 1)) * mult), in hundredths of a point
AmountScore(total_amount, mult, cap) == Min(100 * cap, mult * Log10Centi(Max(total_amount, 1)))

(***************************************************************************)
(* The transaction tables analyze is run on.  A row is one line of the     *)
(* CSV; na marks a row with an empty or unparseable required field.        *)
(***************************************************************************)
R(s, r, amt, ts) == [s |-> s, r |-> r, amt |-> amt, ts |-> ts, na |-> FALSE]

NaRow(s, r) == [s |-> s, r |-> r, amt |-> 0, ts |-> 0, na |-> TRUE]

\* a directed ring 1 -> 2 -> ... -> k -> 1 (reversed when rev), every transfer of
\* amount a at hour 0 but the last, which closes the ring at hour tl
RingRows(k, a, tl, rev) == [i \in 1..k |-> LET u == i
                                               v == (i % k) + 1
                                           IN R(IF rev THEN v ELSE u, IF rev THEN u ELSE v, a, IF i = k THEN tl ELSE 0)]

\* what a cycle input may hold besides its ring: parallel transfers (late, large,
\* negative), a chord, a reverse transfer, a self-transfer, an unparseable row
CycleExtras == {<<>>, <<R(1, 2, 200, 169)>>, <<R(1, 2, 400, 0)>>, <<R(1, 2, -300, 0)>>, <<R(3, 1, 200, 0)>>,
                <<R(2, 1, 200, 0)>>, <<R(1, 1, 200, 0)>>, <<NaRow(2, 3)>>}

\* every ring length, amount and closing hour; the extras with the amounts around
\* MIN_CYCLE_AMOUNT and the closing hours 1 and 168; the reversed rings
CycleInputs == {RingRows(k, a, tl, FALSE) : k \in MIN_CYCLE_LENGTH..MaxRingLen, a \in {150, 200, 40000}, tl \in {1, 72, 168, 169}}
               \cup {RingRows(k, a, tl, FALSE) \o x : k \in MIN_CYCLE_LENGTH..MaxRingLen, a \in {150, 200}, tl \in {1, 168}, x \in CycleExtras}
               \cup {RingRows(k, 200, tl, TRUE) : k \in MIN_CYCLE_LENGTH..MaxRingLen, tl \in {1, 169}}

\* hub 1 and the counterparties 2..k+1, one transfer of 100 each, step hours apart
\* from hour 72 on; inbound: towards the hub
FanRows(k, step, inbound) == [i \in 1..k |-> IF inbound THEN R(i + 1, 1, 100, 72 + (i - 1) * step) ELSE R(1, i + 1, 100, 72 + (i - 1) * step)]

\* what a fan input may hold besides the fan: a self-transfer of the hub, a second
\* transfer of counterparty 2, a new counterparty 72 hours earlier, a negative amount
FanExtras(k, inbound) == {<<>>, <<R(1, 1, 100, 72)>>,
                          <<IF inbound THEN R(2, 1, 100, 80) ELSE R(1, 2, 100, 80)>>,
                          <<IF inbound THEN R(k + 2, 1, 100, 0) ELSE R(1, k + 2, 100, 0)>>,
                          <<IF inbound THEN R(2, 1, -5000, 72) ELSE R(1, 2, -5000, 72)>>}

FanInputs == UNION {{FanRows(k, step, inbound) \o x : x \in FanExtras(k, inbound)} : k \in (SMURF_THRESHOLD - 1)..MaxFan, step \in {0, 8, 9}, inbound \in BOOLEAN}

\* the path 1 -> 2 -> ... -> hops+1, 4000 on every hop, hop i at hour i
ChainRows(hops) == [i \in 1..hops |-> R(i, i + 1, 4000, i)]

\* what a chain input may hold besides the path: one or two transfers from an
\* outside account into node 2 or node 4 (total degree 3 or 4), a parallel first
\* hop, a branch out of node 3, a transfer closing the path into a ring, an
\* incomplete row that would lengthen the path by an account of its own
ChainExtras(hops) == {<<>>, <<R(hops + 2, 2, 50, 0)>>, <<R(hops + 2, 2, 50, 0), R(hops + 2, 2, 60, 0)>>,
                      <<R(hops + 2, 4, 50, 0)>>, <<R(hops + 2, 4, 50, 0), R(hops + 2, 4, 60, 0)>>,
                      <<R(1, 2, 9000, 0)>>, <<R(3, hops + 2, 4000, 5)>>, <<R(hops + 1, 1, 4000, 9)>>,
                      <<NaRow(hops + 1, hops + 2)>>}

ChainInputs == UNION {{ChainRows(hops) \o x : x \in ChainExtras(hops)} : hops \in {MIN_CHAIN_LENGTH, MIN_CHAIN_LENGTH + 1, MaxHops}}

\* accounts 1, 2 and 3 each pay the 10 other accounts of 1..11 on day 0; account 3's
\* transfer to account 1 has amount a3 at hour t3
PayrollRows(a3, t3) == Concat([s \in 1..3 |-> LET others == SelectSeq([i \in 1..11 |-> i], LAMBDA i : i # s)
                                              IN [j \in 1..10 |-> IF s = 3 /\ others[j] = 1 THEN R(3, 1, a3, t3) ELSE R(s, others[j], 200, 0)]])

PayrollInputs == {PayrollRows(200, 0), PayrollRows(300, 0), PayrollRows(200, 24)}

\* account 1 receives 50 from each of the accounts 2..11 at hour 0 and again, from
\* account 2 + (i mod 10), n - 10 times at hour span
MerchantRows(n, span) == [i \in 1..n |-> IF i <= 10 THEN R(i + 1, 1, 50, 0) ELSE R(2 + (i % 10), 1, 50, span)]

MerchantInputs == {MerchantRows(n, span) : n \in {MERCHANT_MIN_TRANSACTIONS - 1, MERCHANT_MIN_TRANSACTIONS}, span \in {24 * MERCHANT_MIN_DAYS - 1, 24 * MERCHANT_MIN_DAYS}}

\* account 1 pays 100 to each of the accounts 2..11 at hour 0 and then, n - 10
\* times, 100 to account 2 at hour 720: a payroll sender that with n = 50 is a
\* merchant as well
MerchantPayrollRows(n) == [i \in 1..n |-> IF i <= 10 THEN R(1, i + 1, 100, 0) ELSE R(1, 2, 100, 24 * MERCHANT_MIN_DAYS)]

MerchantPayrollInputs == {MerchantPayrollRows(n) : n \in {MERCHANT_MIN_TRANSACTIONS - 1, MERCHANT_MIN_TRANSACTIONS}}

\* account MaxFan + 2 receives from the accounts 2..11 in one hour
SecondHubRows == [i \in 1..SMURF_THRESHOLD |-> R(i + 1, MaxFan + 2, 100, 72)]

\* hub 1 receives from k accounts in one hour and pays the same k accounts, one
\* transfer every 8 hours; the rows of a second hub may come first
BothFanInputs == {x \o FanRows(k, 0, TRUE) \o FanRows(k, 8, FALSE) : k \in (SMURF_THRESHOLD - 1)..MaxFan, x \in {<<>>, SecondHubRows}}

\* account 8 pays account 9 m times at hour 0 and once 40 days later: with
\* m = 4 a velocity spike worth the full 20 points for both accounts
SpikeRows(m) == [i \in 1..(m + 1) |-> IF i <= m THEN R(8, 9, 100, 0) ELSE R(8, 9, 100, 960)]

\* a fast ring of three accounts and two accounts outside every ring
VelocityInputs == {RingRows(3, 200, 1, FALSE) \o SpikeRows(m) : m \in {1, 4}}

Inputs == CycleInputs \cup FanInputs \cup ChainInputs \cup PayrollInputs \cup MerchantInputs \cup MerchantPayrollInputs \cup BothFanInputs \cup VelocityInputs

\* account 1 pays every account of layer 1, every account of a layer pays every
\* account of the next layer, and every account of layer 4 pays account 1: w^4
\* directed rings of 5 accounts, 200 on every transfer, hop k at hour k - 1
LayerNode(layer, i, w) == 1 + (layer - 1) * w + i

LayerRows(w) == [i \in 1..w |-> R(1, LayerNode(1, i, w), 200, 0)]
                \o Concat([layer \in 1..3 |-> Concat([i \in 1..w |-> [j \in 1..w |-> R(LayerNode(layer, i, w), LayerNode(layer + 1, j, w), 200, layer)]])])
                \o [i \in 1..w |-> R(LayerNode(4, i, w), 1, 200, 4)]

\* the tables of the runs with many rings
LayerInputs == {LayerRows(w) : w \in {1, 2, 3, 4, MaxWidth}}

(***************************************************************************)
(* State.                                                                  *)
(***************************************************************************)
VARIABLES
  csv,            \* the rows of the input file, in file order
  pc,             \* position of analyze: start, detect, scored, filtered, done
  run,            \* 1 for the first analyze of csv, 2 for the second
  G,              \* the multigraph: nodes and edges in insertion order
  df,             \* the cleaned transaction table
  ran,            \* the detectors that have returned
  cycle_rings,    \* detect_cycles' result
  smurf_rings,    \* detect_smurfing's result
  shell_rings,    \* detect_shell_chains' result
  raw_scores,     \* score_accounts' result, in dict insertion order
  clean_rings,    \* filter_false_positives' ring list
  clean_accounts, \* filter_false_positives' account dict, in insertion order
  result,         \* the report of this run
  first_result    \* the report of the first run, once there is one

vars == <<csv, pc, run, G, df, ran, cycle_rings, smurf_rings, shell_rings, raw_scores, clean_rings, clean_accounts, result, first_result>>

NoGraph == [nodes |-> <<>>, edges |-> <<>>]

NoResult == [suspicious_accounts |-> <<>>, fraud_rings |-> <<>>, summary |-> [total_accounts_analyzed |-> -1, suspicious_accounts_flagged |-> -1, fraud_rings_detected |-> -1]]

Init == /\ csv \in Inputs
        /\ pc = "start"
        /\ run = 1
        /\ G = NoGraph
        /\ df = <<>>
        /\ ran = {}
        /\ cycle_rings = <<>>
        /\ smurf_rings = <<>>
        /\ shell_rings = <<>>
        /\ raw_scores = <<>>
        /\ clean_rings = <<>>
        /\ clean_accounts = <<>>
        /\ result = NoResult
        /\ first_result = NoResult

(***************************************************************************)
(* graph_builder.py                                                        *)
(***************************************************************************)
\* df.dropna(subset=...) then reset_index: the rows without a missing field,
\* re-indexed from 1; id stands for the row's transaction_id
\* CleanRows without the dropna
CleanRows_keep_na(rows) == [i \in 1..Len(rows) |-> [id |-> i, s |-> rows[i].s, r |-> rows[i].r, amt |-> rows[i].amt, ts |-> rows[i].ts]]

CleanRows(rows) == LET kept == SelectSeq(rows, LAMBDA row : ~row.na)
                   IN [i \in 1..Len(kept) |-> [id |-> i, s |-> kept[i].s, r |-> kept[i].r, amt |-> kept[i].amt, ts |-> kept[i].ts]]

\* the nodes in the order add_edge creates them: sender, then receiver, row by row
NodeOrder(rows) == Unique(Concat([i \in 1..Len(rows) |-> <<rows[i].s, rows[i].r>>]))

build_graph(rows) == LET clean == CleanRows(rows) IN [G |-> [nodes |-> NodeOrder(clean), edges |-> clean], df |-> clean]

\* G.get_edge_data(u, v): the parallel edges u -> v, in insertion order
EdgeData(g, u, v) == SelectSeq(g.edges, LAMBDA e : e.s = u /\ e.r = v)

\* G.successors(n): the distinct receivers of n's edges, in order of first edge
Successors(g, n) == LET out == SelectSeq(g.edges, LAMBDA e : e.s = n) IN Unique([i \in 1..Len(out) |-> out[i].r])

\* G.predecessors(n): the distinct senders of n's edges, in order of first edge
Predecessors(g, n) == LET inn == SelectSeq(g.edges, LAMBDA e : e.r = n) IN Unique([i \in 1..Len(inn) |-> inn[i].s])

\* G.in_degree(n) + G.out_degree(n), parallel edges counted
Degree(g, n) == Len(SelectSeq(g.edges, LAMBDA e : e.r = n)) + Len(SelectSeq(g.edges, LAMBDA e : e.s = n))

(***************************************************************************)
(* Ring ids: the f-strings RING_C_{ring_counter:03d}, RING_S_... and        *)
(* RING_H_... of the three detectors.                                      *)
(***************************************************************************)
\* A ring id is the sequence of its characters.
DigitChar(d) == <<"0", "1", "2", "3", "4", "5", "6", "7", "8", "9">>[d + 1]

RECURSIVE Decimal(_)
\* str(n) for n >= 0
Decimal(n) == IF n < 10 THEN <<DigitChar(n)>> ELSE Decimal(n \div 10) \o <<DigitChar(n % 10)>>

\* format(n, "03d"): the decimal digits of n, zero-padded on the left to a width of
\* at least 3
Fmt03d(n) == IF Len(Decimal(n)) >= 3 THEN Decimal(n) ELSE [i \in 1..(3 - Len(Decimal(n))) |-> "0"] \o Decimal(n)

PrefixC == <<"R", "I", "N", "G", "_", "C", "_">>

PrefixS == <<"R", "I", "N", "G", "_", "S", "_">>

PrefixH == <<"R", "I", "N", "G", "_", "H", "_">>

RingId(prefix, ring_counter) == prefix \o Fmt03d(ring_counter)

\* the ring_id of a smurf ring before its caller assigns one
NoneId == <<"N", "o", "n", "e">>

UNKNOWN == <<"U", "N", "K", "N", "O", "W", "N">>

(***************************************************************************)
(* cycle_detector.py                                                       *)
(***************************************************************************)
RECURSIVE CyclesThrough(_, _, _)
\* the elementary cycles that extend path, start at path[1] and visit no node that
\* precedes the start in node order: each cycle is found once, from its first node
CyclesThrough(g, start, path) == LET succ == Successors(g, path[Len(path)])
                                     Visit(w) == IF w = start THEN <<path>>
                                                 ELSE IF Contains(path, w) \/ IndexOf(g.nodes, w) < IndexOf(g.nodes, start) THEN <<>>
                                                 ELSE CyclesThrough(g, start, Append(path, w))
                                 IN Concat([i \in 1..Len(succ) |-> Visit(succ[i])])

\* list(nx.simple_cycles(G)): every elementary cycle once, as its node list
simple_cycles(g) == Concat([i \in 1..Len(g.nodes) |-> CyclesThrough(g, g.nodes[i], <<g.nodes[i]>>)])

\* CycleEdges with only the first of the parallel edges of every pair collected
CycleEdges_first_parallel(g, cycle) == Concat([i \in 1..Len(cycle) |-> SubSeq(EdgeData(g, cycle[i], cycle[(i % Len(cycle)) + 1]), 1, 1)])

\* the edges of every consecutive pair of the cycle, wrap-around included
CycleEdges(g, cycle) == Concat([i \in 1..Len(cycle) |-> EdgeData(g, cycle[i], cycle[(i % Len(cycle)) + 1])])

CycleValid(g, cycle) == \A i \in 1..Len(cycle) : EdgeData(g, cycle[i], cycle[(i % Len(cycle)) + 1]) # <<>>

DurationHours(edges) == MaxOf({edges[i].ts : i \in 1..Len(edges)}) - MinOf({edges[i].ts : i \in 1..Len(edges)})

TotalAmount(edges) == SumSeq([i \in 1..Len(edges) |-> edges[i].amt])

_cycle_risk_score(length, duration_hours, total_amount) == LET length_score == CASE length = 3 -> 40 [] length = 4 -> 30 [] length = 5 -> 20 [] OTHER -> 20
                                                               speed_score == IF duration_hours <= 24 THEN 40 ELSE IF duration_hours <= 72 THEN 30 ELSE 15
                                                               amount_score == AmountScore(total_amount, 4, 20)
                                                           IN Min(100 * 100, 100 * length_score + 100 * speed_score + amount_score)

\* CycleKept without the length filter of step 2
CycleKept_any_length(g, cycle) == LET cycle_edges == CycleEdges(g, cycle)
                                  IN /\ CycleValid(g, cycle)
                                     /\ cycle_edges # <<>>
                                     /\ ~(Len(cycle_edges) < Len(cycle))
                                     /\ ~(DurationHours(cycle_edges) > 24 * MAX_CYCLE_DAYS)
                                     /\ ~(TotalAmount(cycle_edges) < MIN_CYCLE_AMOUNT)

\* steps 2 to 5 of the loop body: TRUE when the cycle is not skipped by a continue
CycleKept(g, cycle) == LET cycle_edges == CycleEdges(g, cycle)
                       IN /\ MIN_CYCLE_LENGTH <= Len(cycle) /\ Len(cycle) <= MAX_CYCLE_LENGTH
                          /\ CycleValid(g, cycle)
                          /\ cycle_edges # <<>>
                          /\ ~(Len(cycle_edges) < Len(cycle))
                          /\ ~(DurationHours(cycle_edges) > 24 * MAX_CYCLE_DAYS)
                          /\ ~(TotalAmount(cycle_edges) < MIN_CYCLE_AMOUNT)

CycleRing(g, cycle, ring_counter) == LET cycle_edges == CycleEdges(g, cycle)
                                     IN [ring_id |-> RingId(PrefixC, ring_counter),
                                         pattern_type |-> "cycle",
                                         members |-> cycle,
                                         cycle_length |-> Len(cycle),
                                         completed_hours |-> DurationHours(cycle_edges),
                                         total_amount |-> TotalAmount(cycle_edges),
                                         risk_score |-> _cycle_risk_score(Len(cycle), DurationHours(cycle_edges), TotalAmount(cycle_edges))]

\* the for loop of detect_cycles over all_cycles: the cycles no continue skips,
\* in order; ring_counter starts at 1 and grows by one with every ring appended,
\* so the i-th ring appended is built with ring_counter = i
CycleLoop(g, all_cycles) == LET kept == SelectSeq(all_cycles, LAMBDA cycle : CycleKept(g, cycle))
                            IN [i \in 1..Len(kept) |-> CycleRing(g, kept[i], i)]

detect_cycles(g) == CycleLoop(g, simple_cycles(g))

(***************************************************************************)
(* smurfing_detector.py                                                    *)
(***************************************************************************)
\* the orders list(set(...)) can give a set of account ids: the iteration order of
\* a set of strings follows their hashes, which change with the interpreter's hash
\* seed; two of the possible orders are modelled
HashSeeds == {"ascending", "descending"}

RECURSIVE Ascending(_)
Ascending(S) == IF S = {} THEN <<>> ELSE <<MinOf(S)>> \o Ascending(S \ {MinOf(S)})

RECURSIVE Descending(_)
Descending(S) == IF S = {} THEN <<>> ELSE <<MaxOf(S)>> \o Descending(S \ {MaxOf(S)})

\* list(S) for a set S of account ids under the given hash seed
ListOfSet(S, seed) == IF seed = "ascending" THEN Ascending(S) ELSE Descending(S)

Event(counterparty, e) == [counterparty |-> counterparty, amount |-> e.amt, timestamp |-> e.ts]

\* the incoming list of _check_fan_in
Incoming(g, node) == LET pred == Predecessors(g, node)
                     IN Concat([i \in 1..Len(pred) |-> LET edge_data == EdgeData(g, pred[i], node) IN [k \in 1..Len(edge_data) |-> Event(pred[i], edge_data[k])]])

\* the outgoing list of _check_fan_out
Outgoing(g, node) == LET succ == Successors(g, node)
                     IN Concat([i \in 1..Len(succ) |-> LET edge_data == EdgeData(g, node, succ[i]) IN [k \in 1..Len(edge_data) |-> Event(succ[i], edge_data[k])]])

_smurfing_risk_score(unique_count, total_amount) == LET count_score == Min(60, (unique_count - SMURF_THRESHOLD) * 4 + 40)
                                                        amount_score == AmountScore(total_amount, 5, 40)
                                                    IN Min(100 * 100, 100 * count_score + amount_score)

\* WindowEvents with the window open at its end
WindowEvents_half_open(events, window_start) == SelectSeq(events, LAMBDA e : window_start <= e.timestamp /\ e.timestamp < window_start + TIME_WINDOW_HOURS)

WindowEvents(events, window_start) == SelectSeq(events, LAMBDA e : window_start <= e.timestamp /\ e.timestamp <= window_start + TIME_WINDOW_HOURS)

Counterparties(events) == {events[i].counterparty : i \in 1..Len(events)}

\* Slide with best_window_events left at all the events of the node
Slide_all_events(events) == LET counts == [i \in 1..Len(events) |-> Cardinality(Counterparties(WindowEvents(events, events[i].timestamp)))]
                                peak == MaxOf({counts[i] : i \in 1..Len(events)})
                                first == CHOOSE i \in 1..Len(events) : counts[i] = peak /\ \A j \in 1..(i - 1) : counts[j] < peak
                            IN IF events = <<>> THEN [count |-> 0, window |-> <<0, 0>>, events |-> <<>>]
                               ELSE [count |-> peak, window |-> <<events[first].timestamp, events[first].timestamp + TIME_WINDOW_HOURS>>, events |-> events]

\* the window loop over the sorted events: best_unique_count, best_window and
\* best_window_events after it; a window replaces the best one only when it holds
\* strictly more counterparties, so the first window with the largest count wins
Slide(events) == LET counts == [i \in 1..Len(events) |-> Cardinality(Counterparties(WindowEvents(events, events[i].timestamp)))]
                     peak == MaxOf({counts[i] : i \in 1..Len(events)})
                     first == CHOOSE i \in 1..Len(events) : counts[i] = peak /\ \A j \in 1..(i - 1) : counts[j] < peak
                 IN IF events = <<>> THEN [count |-> 0, window |-> <<0, 0>>, events |-> <<>>]
                    ELSE [count |-> peak, window |-> <<events[first].timestamp, events[first].timestamp + TIME_WINDOW_HOURS>>, events |-> WindowEvents(events, events[first].timestamp)]

\* the ring of the node's events, or nothing: a sequence of at most one ring, its
\* ring_id still to be assigned by the caller
_sliding_window_check(node, events, pattern, seed) == LET sorted == SortBy(events, [i \in 1..Len(events) |-> events[i].timestamp])
                                                          best == Slide(sorted)
                                                          total_amount == SumSeq([i \in 1..Len(best.events) |-> best.events[i].amount])
                                                      IN IF events = <<>> \/ best.count < SMURF_THRESHOLD THEN <<>>
                                                         ELSE <<[ring_id |-> NoneId,
                                                                 pattern_type |-> pattern,
                                                                 hub_account |-> node,
                                                                 members |-> <<node>> \o ListOfSet(Counterparties(best.events), seed),
                                                                 peak_count |-> best.count,
                                                                 peak_window_start |-> best.window[1],
                                                                 peak_window_end |-> best.window[2],
                                                                 total_amount |-> total_amount,
                                                                 risk_score |-> _smurfing_risk_score(best.count, total_amount)]>>

_check_fan_in(node, g, seed) == _sliding_window_check(node, Incoming(g, node), "fan_in", seed)

_check_fan_out(node, g, seed) == _sliding_window_check(node, Outgoing(g, node), "fan_out", seed)

RECURSIVE SmurfLoop_fan_out_first(_, _, _, _, _)
\* SmurfLoop with the fan-out check of a node made before its fan-in check
SmurfLoop_fan_out_first(g, nodes, rings, ring_counter, seed) == IF nodes = <<>> THEN rings
                                                                ELSE LET fan_out_result == _check_fan_out(nodes[1], g, seed)
                                                                         rings1 == IF fan_out_result # <<>> THEN Append(rings, [fan_out_result[1] EXCEPT !.ring_id = RingId(PrefixS, ring_counter)]) ELSE rings
                                                                         counter1 == IF fan_out_result # <<>> THEN ring_counter + 1 ELSE ring_counter
                                                                         fan_in_result == _check_fan_in(nodes[1], g, seed)
                                                                         rings2 == IF fan_in_result # <<>> THEN Append(rings1, [fan_in_result[1] EXCEPT !.ring_id = RingId(PrefixS, counter1)]) ELSE rings1
                                                                         counter2 == IF fan_in_result # <<>> THEN counter1 + 1 ELSE counter1
                                                                     IN SmurfLoop_fan_out_first(g, Tail(nodes), rings2, counter2, seed)

RECURSIVE SmurfLoop(_, _, _, _, _)
\* the for loop of detect_smurfing over the nodes, from rings and ring_counter
SmurfLoop(g, nodes, rings, ring_counter, seed) == IF nodes = <<>> THEN rings
                                                  ELSE LET fan_in_result == _check_fan_in(nodes[1], g, seed)
                                                           rings1 == IF fan_in_result # <<>> THEN Append(rings, [fan_in_result[1] EXCEPT !.ring_id = RingId(PrefixS, ring_counter)]) ELSE rings
                                                           counter1 == IF fan_in_result # <<>> THEN ring_counter + 1 ELSE ring_counter
                                                           fan_out_result == _check_fan_out(nodes[1], g, seed)
                                                           rings2 == IF fan_out_result # <<>> THEN Append(rings1, [fan_out_result[1] EXCEPT !.ring_id = RingId(PrefixS, counter1)]) ELSE rings1
                                                           counter2 == IF fan_out_result # <<>> THEN counter1 + 1 ELSE counter1
                                                       IN SmurfLoop(g, Tail(nodes), rings2, counter2, seed)

detect_smurfing(g, seed) == SmurfLoop(g, g.nodes, <<>>, 1, seed)

(***************************************************************************)
(* shell_detector.py                                                       *)
(***************************************************************************)
RECURSIVE _dfs_find_chains_early_save(_, _, _, _)
\* _dfs_find_chains with the broken-intermediate branch testing hops, not hops - 1
_dfs_find_chains_early_save(g, start, path, depth) == IF depth >= MAX_CHAIN_LENGTH THEN <<>>
                                                      ELSE LET succ == Successors(g, path[Len(path)])
                                                               Visit(neighbor) == LET new_path == Append(path, neighbor)
                                                                                      hops == Len(new_path) - 1
                                                                                      intermediate_nodes == SubSeq(new_path, 2, Len(new_path) - 1)
                                                                                      all_intermediates_are_shells == \A i \in 1..Len(intermediate_nodes) : Degree(g, intermediate_nodes[i]) <= MAX_SHELL_DEGREE
                                                                                  IN IF Contains(path, neighbor) THEN <<>>
                                                                                     ELSE IF ~all_intermediates_are_shells THEN (IF hops >= MIN_CHAIN_LENGTH THEN <<path>> ELSE <<>>)
                                                                                     ELSE (IF hops >= MIN_CHAIN_LENGTH THEN <<new_path>> ELSE <<>>) \o _dfs_find_chains_early_save(g, start, new_path, depth + 1)
                                                           IN Concat([i \in 1..Len(succ) |-> Visit(succ[i])])

RECURSIVE _dfs_find_chains(_, _, _, _)
\* found_chains of the recursive DFS; node_degree is Degree(g, _)
_dfs_find_chains(g, start, path, depth) == IF depth >= MAX_CHAIN_LENGTH THEN <<>>
                                           ELSE LET succ == Successors(g, path[Len(path)])
                                                    Visit(neighbor) == LET new_path == Append(path, neighbor)
                                                                           hops == Len(new_path) - 1
                                                                           intermediate_nodes == SubSeq(new_path, 2, Len(new_path) - 1)
                                                                           all_intermediates_are_shells == \A i \in 1..Len(intermediate_nodes) : Degree(g, intermediate_nodes[i]) <= MAX_SHELL_DEGREE
                                                                       IN IF Contains(path, neighbor) THEN <<>>
                                                                          ELSE IF ~all_intermediates_are_shells THEN (IF hops - 1 >= MIN_CHAIN_LENGTH THEN <<path>> ELSE <<>>)
                                                                          ELSE (IF hops >= MIN_CHAIN_LENGTH THEN <<new_path>> ELSE <<>>) \o _dfs_find_chains(g, start, new_path, depth + 1)
                                                IN Concat([i \in 1..Len(succ) |-> Visit(succ[i])])

_chain_amount(g, chain) == SumSeq([i \in 1..(Len(chain) - 1) |-> LET edge_data == EdgeData(g, chain[i], chain[i + 1])
                                                                 IN IF edge_data # <<>> THEN MaxOf({edge_data[k].amt : k \in 1..Len(edge_data)}) ELSE 0])

_shell_risk_score(hops, shell_count, total_amount) == LET hop_score == Min(40, hops * 8)
                                                          shell_score == Min(30, shell_count * 10)
                                                          amount_score == AmountScore(total_amount, 5, 30)
                                                      IN Min(100 * 100, 100 * hop_score + 100 * shell_score + amount_score)

ShellRing(g, chain, ring_counter) == LET shell_nodes == SelectSeq(SubSeq(chain, 2, Len(chain) - 1), LAMBDA node : Degree(g, node) <= MAX_SHELL_DEGREE)
                                         total_amount == _chain_amount(g, chain)
                                     IN [ring_id |-> RingId(PrefixH, ring_counter),
                                         pattern_type |-> "shell_chain",
                                         members |-> chain,
                                         chain_length |-> Len(chain) - 1,
                                         shell_nodes |-> shell_nodes,
                                         total_amount |-> total_amount,
                                         risk_score |-> _shell_risk_score(Len(chain) - 1, Len(shell_nodes), total_amount)]

\* ShellLoop without the visited_chains test: every chain found becomes a ring
ShellLoop_no_visited(g, chains, rings, ring_counter, visited_chains) == rings \o [i \in 1..Len(chains) |-> ShellRing(g, chains[i], ring_counter + i - 1)]

RECURSIVE ShellLoop(_, _, _, _, _)
\* the loops of detect_shell_chains over the chains of every start node, in order;
\* visited_chains holds the chain keys seen
ShellLoop(g, chains, rings, ring_counter, visited_chains) == IF chains = <<>> THEN rings
                                                             ELSE IF chains[1] \in visited_chains THEN ShellLoop(g, Tail(chains), rings, ring_counter, visited_chains)
                                                             ELSE ShellLoop(g, Tail(chains), Append(rings, ShellRing(g, chains[1], ring_counter)), ring_counter + 1, visited_chains \cup {chains[1]})

detect_shell_chains(g) == ShellLoop(g, Concat([i \in 1..Len(g.nodes) |-> _dfs_find_chains(g, g.nodes[i], <<g.nodes[i]>>, 0)]), <<>>, 1, {})

(***************************************************************************)
(* scorer.py                                                               *)
(***************************************************************************)
\* sub in p, for the pattern tags the engine produces
TagContains(sub, p) == CASE sub = "cycle" -> p \in {"cycle_length_" \o ToString(k) : k \in MIN_CYCLE_LENGTH..MAX_CYCLE_LENGTH}
                         [] sub = "fan" -> p \in {"fan_in", "fan_out"}
                         [] sub = "fan_out" -> p = "fan_out"
                         [] sub = "shell" -> p = "shell_chain"
                         [] sub = "velocity" -> p \in {"high_velocity", "moderate_velocity"}
                         [] OTHER -> FALSE

\* the rows of df that involve acc as sender or receiver
AccTxns(rows, acc) == SelectSeq(rows, LAMBDA row : row.s = acc \/ row.r = acc)

AllAccounts(rows) == {rows[i].s : i \in 1..Len(rows)} \cup {rows[i].r : i \in 1..Len(rows)}

TimeRange(rows) == MaxOf({rows[i].ts : i \in 1..Len(rows)}) - MinOf({rows[i].ts : i \in 1..Len(rows)})

\* velocity[acc] * WEIGHT_VELOCITY as the fraction num / den of a point (0 / 1 when
\* acc has no entry): with total_days = hours / 24 and avg_daily = n / total_days,
\* peak_count > avg_daily * 3 is peak_count * hours > 72 * n, and
\* min(1.0, (peak_count / avg_daily) / 20) * 20 is min(20, peak_count * hours / (24 * n))
_compute_velocity_scores(rows, acc) == LET acc_txns == AccTxns(rows, acc)
                                           n == Len(acc_txns)
                                           hours == Max(TimeRange(acc_txns), 24)
                                           peak_count == MaxOf({Len(SelectSeq(acc_txns, LAMBDA row : row.ts >= acc_txns[i].ts /\ row.ts <= acc_txns[i].ts + 24)) : i \in 1..n})
                                       IN IF n < 3 THEN [num |-> 0, den |-> 1]
                                          ELSE IF peak_count * hours > 72 * n THEN [num |-> Min(WEIGHT_VELOCITY * 24 * n, peak_count * hours), den |-> 24 * n]
                                          ELSE [num |-> 0, den |-> 1]

_count_unique_pattern_types(patterns) == Cardinality({CASE TagContains("cycle", patterns[i]) -> "cycle"
                                                        [] TagContains("fan", patterns[i]) -> "smurf"
                                                        [] TagContains("shell", patterns[i]) -> "shell"
                                                        [] TagContains("velocity", patterns[i]) -> "velocity"
                                                        [] OTHER -> "none" : i \in 1..Len(patterns)} \ {"none"})

\* ring_map.get(rid, 0)
RiskOf(all_rings, rid) == IF \E i \in 1..Len(all_rings) : all_rings[i].ring_id = rid
                          THEN all_rings[MaxOf({i \in 1..Len(all_rings) : all_rings[i].ring_id = rid})].risk_score
                          ELSE 0

\* _pick_primary_ring taking the last ring id of the largest risk
_pick_primary_ring_last_max(ring_ids, all_rings) == LET risk == [i \in 1..Len(ring_ids) |-> RiskOf(all_rings, ring_ids[i])]
                                                        best == MaxOf({risk[i] : i \in 1..Len(ring_ids)})
                                                    IN IF ring_ids = <<>> THEN UNKNOWN
                                                       ELSE ring_ids[CHOOSE i \in 1..Len(ring_ids) : risk[i] = best /\ \A j \in (i + 1)..Len(ring_ids) : risk[j] # best]

\* max(ring_ids, key=...): the first ring id of the largest risk
_pick_primary_ring(ring_ids, all_rings) == LET risk == [i \in 1..Len(ring_ids) |-> RiskOf(all_rings, ring_ids[i])]
                                               best == MaxOf({risk[i] : i \in 1..Len(ring_ids)})
                                           IN IF ring_ids = <<>> THEN UNKNOWN
                                              ELSE ring_ids[CHOOSE i \in 1..Len(ring_ids) : risk[i] = best /\ \A j \in 1..(i - 1) : risk[j] # best]

\* the tags step 1 appends for one member of the ring
RingPatterns(ring) == IF ring.pattern_type = "cycle"
                      THEN <<"cycle_length_" \o ToString(ring.cycle_length)>> \o (IF ring.completed_hours <= 24 THEN <<"high_velocity">> ELSE IF ring.completed_hours <= 72 THEN <<"moderate_velocity">> ELSE <<>>)
                      ELSE IF ring.pattern_type = "shell_chain" THEN <<"shell_chain">>
                      ELSE <<ring.pattern_type>>

\* step 1, unrolled: one entry per (ring, member) in the order the three loops
\* visit them
Memberships(cycle, smurf, shell) == LET all_rings == cycle \o smurf \o shell
                                    IN Concat([i \in 1..Len(all_rings) |-> [k \in 1..Len(all_rings[i].members) |-> [acc |-> all_rings[i].members[k], ring |-> all_rings[i]]]])

\* the best normalised score, (raw / 100) * weight in 1/10000 of a point, that the
\* account's rings of the given pattern types give; 0 without such a ring
BestScore(mine, types, weight) == MaxOf({0} \cup {mine[i].ring.risk_score * weight : i \in {j \in 1..Len(mine) : mine[j].ring.pattern_type \in types}})

\* min(100.0, round(cycle + smurf + shell + velocity + multi_bonus, 2))
TotalScore(cycle_pts, smurf_pts, shell_pts, velocity, multi_bonus) == Min(100 * 100, RoundDiv((cycle_pts + smurf_pts + shell_pts) * velocity.den + 10000 * velocity.num, 100 * velocity.den) + 100 * multi_bonus)

ScoreAccount(rows, acc, memberships, all_rings) == LET mine == SelectSeq(memberships, LAMBDA m : m.acc = acc)
                                                       ring_ids == [i \in 1..Len(mine) |-> mine[i].ring.ring_id]
                                                       patterns == Concat([i \in 1..Len(mine) |-> RingPatterns(mine[i].ring)])
                                                       cycle_pts == BestScore(mine, {"cycle"}, WEIGHT_CYCLE)
                                                       smurf_pts == BestScore(mine, {"fan_in", "fan_out"}, WEIGHT_SMURF)
                                                       shell_pts == BestScore(mine, {"shell_chain"}, WEIGHT_SHELL)
                                                       velocity == _compute_velocity_scores(rows, acc)
                                                       multi_bonus == IF _count_unique_pattern_types(patterns) >= 2 THEN WEIGHT_MULTI_DETECT ELSE 0
                                                   IN [account_id |-> acc,
                                                       suspicion_score |-> TotalScore(cycle_pts, smurf_pts, shell_pts, velocity, multi_bonus),
                                                       detected_patterns |-> Unique(patterns),
                                                       ring_id |-> _pick_primary_ring(ring_ids, all_rings),
                                                       ring_ids |-> Unique(ring_ids)]

\* the result dict as the sequence of its values, in insertion order: the order in
\* which step 1 first meets each account
\* score_accounts with an entry for every account of the table, ring member or not
score_accounts_every_account(rows, cycle, smurf, shell) == LET memberships == Memberships(cycle, smurf, shell)
                                                               order == Unique([i \in 1..Len(memberships) |-> memberships[i].acc] \o Ascending(AllAccounts(rows)))
                                                           IN [i \in 1..Len(order) |-> ScoreAccount(rows, order[i], memberships, cycle \o smurf \o shell)]

score_accounts(rows, cycle, smurf, shell) == LET memberships == Memberships(cycle, smurf, shell)
                                                 order == Unique([i \in 1..Len(memberships) |-> memberships[i].acc])
                                             IN [i \in 1..Len(order) |-> ScoreAccount(rows, order[i], memberships, cycle \o smurf \o shell)]

(***************************************************************************)
(* false_positive_filter.py                                                *)
(***************************************************************************)
\* time_range.days is the whole number of days of the range
_find_merchants(rows) == {acc \in AllAccounts(rows) : /\ ~(Len(AccTxns(rows, acc)) < MERCHANT_MIN_TRANSACTIONS)
                                                      /\ TimeRange(AccTxns(rows, acc)) \div 24 >= MERCHANT_MIN_DAYS}

\* abs(a - mean) / mean <= PAYROLL_AMOUNT_VARIANCE for every amount of the group,
\* with mean = total / n: abs(a * n - total) / total <= 0.20, which a negative
\* total satisfies whatever the amounts
VarianceOk(group) == LET total == SumSeq([i \in 1..Len(group) |-> group[i].amt])
                     IN \A i \in 1..Len(group) : LET dev == group[i].amt * Len(group) - total
                                                 IN total < 0 \/ 100 * (IF dev < 0 THEN 0 - dev ELSE dev) <= PAYROLL_AMOUNT_VARIANCE * total

_find_payroll_accounts(rows) == {sender \in {rows[i].s : i \in 1..Len(rows)} :
                                   \E date \in {rows[i].ts \div 24 : i \in 1..Len(rows)} :
                                      LET group == SelectSeq(rows, LAMBDA row : row.s = sender /\ row.ts \div 24 = date)
                                      IN /\ ~(Len(group) < PAYROLL_MIN_RECEIVERS)
                                         /\ ~(Cardinality({group[i].r : i \in 1..Len(group)}) < PAYROLL_MIN_RECEIVERS)
                                         /\ SumSeq([i \in 1..Len(group) |-> group[i].amt]) # 0
                                         /\ VarianceOk(group)}

\* RingKept with a ring removed as soon as one member is a merchant or payroll
RingKept_any_legit(ring, merchants, payroll) == /\ ~(ring.pattern_type = "cycle" /\ ring.total_amount < MICRO_TXN_CYCLE_MAX)
                                                /\ \A k \in 1..Len(ring.members) : ring.members[k] \notin (merchants \cup payroll)

\* step 2: TRUE when the ring is appended to cleaned_rings
RingKept(ring, merchants, payroll) == /\ ~(ring.pattern_type = "cycle" /\ ring.total_amount < MICRO_TXN_CYCLE_MAX)
                                      /\ \E k \in 1..Len(ring.members) : ring.members[k] \notin (merchants \cup payroll)

\* AdjustAccount with the score divided by the penalty factor
AdjustAccount_divides(acc_data, merchants, payroll) == IF acc_data.account_id \in merchants
                                                       THEN [acc_data EXCEPT !.suspicion_score = RoundDiv(acc_data.suspicion_score * 100, MERCHANT_SCORE_PENALTY),
                                                                             !.detected_patterns = Append(acc_data.detected_patterns, "fp_merchant_downweight")]
                                                       ELSE IF acc_data.account_id \in payroll
                                                       THEN [acc_data EXCEPT !.suspicion_score = RoundDiv(acc_data.suspicion_score * 100, PAYROLL_SCORE_PENALTY),
                                                                             !.detected_patterns = Append(SelectSeq(acc_data.detected_patterns, LAMBDA p : ~TagContains("fan_out", p)), "fp_payroll_downweight")]
                                                       ELSE acc_data

\* AdjustAccount with the payroll rule tried before the merchant rule
AdjustAccount_payroll_first(acc_data, merchants, payroll) == IF acc_data.account_id \in payroll
                                                             THEN [acc_data EXCEPT !.suspicion_score = RoundDiv(acc_data.suspicion_score * PAYROLL_SCORE_PENALTY, 100),
                                                                                   !.detected_patterns = Append(SelectSeq(acc_data.detected_patterns, LAMBDA p : ~TagContains("fan_out", p)), "fp_payroll_downweight")]
                                                             ELSE IF acc_data.account_id \in merchants
                                                             THEN [acc_data EXCEPT !.suspicion_score = RoundDiv(acc_data.suspicion_score * MERCHANT_SCORE_PENALTY, 100),
                                                                                   !.detected_patterns = Append(acc_data.detected_patterns, "fp_merchant_downweight")]
                                                             ELSE acc_data

\* step 3 for one account: its data after the adjustment
AdjustAccount(acc_data, merchants, payroll) == IF acc_data.account_id \in merchants
                                               THEN [acc_data EXCEPT !.suspicion_score = RoundDiv(acc_data.suspicion_score * MERCHANT_SCORE_PENALTY, 100),
                                                                     !.detected_patterns = Append(acc_data.detected_patterns, "fp_merchant_downweight")]
                                               ELSE IF acc_data.account_id \in payroll
                                               THEN [acc_data EXCEPT !.suspicion_score = RoundDiv(acc_data.suspicion_score * PAYROLL_SCORE_PENALTY, 100),
                                                                     !.detected_patterns = Append(SelectSeq(acc_data.detected_patterns, LAMBDA p : ~TagContains("fan_out", p)), "fp_payroll_downweight")]
                                               ELSE acc_data

\* filter_false_positives with the threshold tested on the score before the adjustment
filter_false_positives_raw_threshold(rows, all_rings, flagged_accs) == LET merchants == _find_merchants(rows)
                                                                           payroll == _find_payroll_accounts(rows)
                                                                           kept == SelectSeq(flagged_accs, LAMBDA acc_data : acc_data.suspicion_score >= 100 * KEEP_THRESHOLD)
                                                                       IN [rings |-> SelectSeq(all_rings, LAMBDA ring : RingKept(ring, merchants, payroll)),
                                                                           accounts |-> [i \in 1..Len(kept) |-> AdjustAccount(kept[i], merchants, payroll)]]

filter_false_positives(rows, all_rings, flagged_accs) == LET merchants == _find_merchants(rows)
                                                             payroll == _find_payroll_accounts(rows)
                                                             adjusted == [i \in 1..Len(flagged_accs) |-> AdjustAccount(flagged_accs[i], merchants, payroll)]
                                                         IN [rings |-> SelectSeq(all_rings, LAMBDA ring : RingKept(ring, merchants, payroll)),
                                                             accounts |-> SelectSeq(adjusted, LAMBDA acc_data : acc_data.suspicion_score >= 100 * KEEP_THRESHOLD)]

(***************************************************************************)
(* engine.py: stage 5 of analyze.  processing_time_seconds, the wall-clock *)
(* time of the run, and _graph_data, a copy of G, are left out.            *)
(***************************************************************************)
SuspiciousAccounts(accounts) == SortByDesc(List([i \in 1..Len(accounts) |-> [account_id |-> accounts[i].account_id,
                                                                             suspicion_score |-> accounts[i].suspicion_score,
                                                                             detected_patterns |-> accounts[i].detected_patterns,
                                                                             ring_id |-> accounts[i].ring_id]]),
                                           [i \in 1..Len(accounts) |-> accounts[i].suspicion_score])

\* FraudRings without the final sort
FraudRings_unsorted(rings) == LET first == SelectSeq([i \in 1..Len(rings) |-> <<i, rings[i]>>], LAMBDA p : \A j \in 1..(p[1] - 1) : rings[j].ring_id # p[2].ring_id)
                              IN [i \in 1..Len(first) |-> [ring_id |-> first[i][2].ring_id,
                                                           member_accounts |-> first[i][2].members,
                                                           pattern_type |-> first[i][2].pattern_type,
                                                           risk_score |-> first[i][2].risk_score]]

\* the rings whose ring_id no earlier ring has, then sorted by risk_score descending
FraudRings(rings) == LET first == SelectSeq([i \in 1..Len(rings) |-> <<i, rings[i]>>], LAMBDA p : \A j \in 1..(p[1] - 1) : rings[j].ring_id # p[2].ring_id)
                     IN SortByDesc(List([i \in 1..Len(first) |-> [ring_id |-> first[i][2].ring_id,
                                                                  member_accounts |-> first[i][2].members,
                                                                  pattern_type |-> first[i][2].pattern_type,
                                                                  risk_score |-> first[i][2].risk_score]]),
                                   [i \in 1..Len(first) |-> first[i][2].risk_score])

BuildResult(g, rings, accounts) == LET suspicious_accounts == SuspiciousAccounts(accounts)
                                       fraud_rings == FraudRings(rings)
                                   IN [suspicious_accounts |-> suspicious_accounts,
                                       fraud_rings |-> fraud_rings,
                                       summary |-> [total_accounts_analyzed |-> Len(g.nodes),
                                                    suspicious_accounts_flagged |-> Len(suspicious_accounts),
                                                    fraud_rings_detected |-> Len(fraud_rings)]]

(***************************************************************************)
(* analyze, stage by stage.  The detectors read G alone and may return in  *)
(* any order.  A second analyze of the same file may follow the first.     *)
(***************************************************************************)
BuildGraph == /\ pc = "start"
              /\ LET built == build_graph(csv) IN G' = built.G /\ df' = built.df
              /\ pc' = "detect"
              /\ UNCHANGED <<csv, run, ran, cycle_rings, smurf_rings, shell_rings, raw_scores, clean_rings, clean_accounts, result, first_result>>

DetectCycles == /\ pc = "detect"
                /\ "cycle" \notin ran
                /\ cycle_rings' = detect_cycles(G)
                /\ ran' = ran \cup {"cycle"}
                /\ UNCHANGED <<csv, pc, run, G, df, smurf_rings, shell_rings, raw_scores, clean_rings, clean_accounts, result, first_result>>

\* DetectSmurfing with one ring counter for the three detectors
DetectSmurfing_shared_counter == /\ pc = "detect"
                                 /\ "smurf" \notin ran
                                 /\ \E seed \in HashSeeds : smurf_rings' = SmurfLoop(G, G.nodes, <<>>, 1 + Len(cycle_rings) + Len(shell_rings), seed)
                                 /\ ran' = ran \cup {"smurf"}
                                 /\ UNCHANGED <<csv, pc, run, G, df, cycle_rings, shell_rings, raw_scores, clean_rings, clean_accounts, result, first_result>>

DetectSmurfing == /\ pc = "detect"
                  /\ "smurf" \notin ran
                  /\ \E seed \in HashSeeds : smurf_rings' = detect_smurfing(G, seed)
                  /\ ran' = ran \cup {"smurf"}
                  /\ UNCHANGED <<csv, pc, run, G, df, cycle_rings, shell_rings, raw_scores, clean_rings, clean_accounts, result, first_result>>

DetectShellChains == /\ pc = "detect"
                     /\ "shell" \notin ran
                     /\ shell_rings' = detect_shell_chains(G)
                     /\ ran' = ran \cup {"shell"}
                     /\ UNCHANGED <<csv, pc, run, G, df, cycle_rings, smurf_rings, raw_scores, clean_rings, clean_accounts, result, first_result>>

ScoreAccounts == /\ pc = "detect"
                 /\ ran = {"cycle", "smurf", "shell"}
                 /\ raw_scores' = score_accounts(df, cycle_rings, smurf_rings, shell_rings)
                 /\ pc' = "scored"
                 /\ UNCHANGED <<csv, run, G, df, ran, cycle_rings, smurf_rings, shell_rings, clean_rings, clean_accounts, result, first_result>>

FilterFalsePositives == /\ pc = "scored"
                        /\ LET cleaned == filter_false_positives(df, cycle_rings \o smurf_rings \o shell_rings, raw_scores)
                           IN clean_rings' = cleaned.rings /\ clean_accounts' = cleaned.accounts
                        /\ pc' = "filtered"
                        /\ UNCHANGED <<csv, run, G, df, ran, cycle_rings, smurf_rings, shell_rings, raw_scores, result, first_result>>

BuildOutput == /\ pc = "filtered"
               /\ result' = BuildResult(G, clean_rings, clean_accounts)
               /\ first_result' = IF run = 1 THEN result' ELSE first_result
               /\ pc' = "done"
               /\ UNCHANGED <<csv, run, G, df, ran, cycle_rings, smurf_rings, shell_rings, raw_scores, clean_rings, clean_accounts>>

\* analyze is called again on the same file, by the same interpreter or by a new
\* one (whose hash seed is drawn anew): nothing of the first call is kept but
\* its report
AnalyzeAgain == /\ pc = "done"
                /\ run = 1
                /\ run' = 2
                /\ pc' = "start"
                /\ G' = NoGraph
                /\ df' = <<>>
                /\ ran' = {}
                /\ cycle_rings' = <<>>
                /\ smurf_rings' = <<>>
                /\ shell_rings' = <<>>
                /\ raw_scores' = <<>>
                /\ clean_rings' = <<>>
                /\ clean_accounts' = <<>>
                /\ result' = NoResult
                /\ UNCHANGED <<csv, first_result>>

Next == \/ BuildGraph
        \/ DetectCycles
        \/ DetectSmurfing
        \/ DetectShellChains
        \/ ScoreAccounts
        \/ FilterFalsePositives
        \/ BuildOutput
        \/ AnalyzeAgain

Spec == Init /\ [][Next]_vars

\* analyze on the tables with many rings
InitLayers == /\ csv \in LayerInputs
              /\ pc = "start"
              /\ run = 1
              /\ G = NoGraph
              /\ df = <<>>
              /\ ran = {}
              /\ cycle_rings = <<>>
              /\ smurf_rings = <<>>
              /\ shell_rings = <<>>
              /\ raw_scores = <<>>
              /\ clean_rings = <<>>
              /\ clean_accounts = <<>>
              /\ result = NoResult
              /\ first_result = NoResult

SpecLayers == InitLayers /\ [][Next]_vars

(***************************************************************************)
(* Claims.                                                                 *)
(***************************************************************************)
AllRingsRaw == cycle_rings \o smurf_rings \o shell_rings

HasEdge(g, u, v) == \E i \in 1..Len(g.edges) : g.edges[i].s = u /\ g.edges[i].r = v

RECURSIVE PathsOfLen(_, _)
\* the sequences of k distinct nodes with a directed edge from each to the next
PathsOfLen(g, k) == IF k = 1 THEN {<<n>> : n \in Range(g.nodes)}
                    ELSE {Append(pw[1], pw[2]) : pw \in {qw \in PathsOfLen(g, k - 1) \X Range(g.nodes) : HasEdge(g, qw[1][Len(qw[1])], qw[2]) /\ qw[2] \notin Range(qw[1])}}

\* the simple directed cycles of 3 to 5 accounts, in every rotation
DirectedCycles(g) == UNION {{p \in PathsOfLen(g, k) : HasEdge(g, p[k], p[1])} : k \in 3..5}

\* all parallel edges between consecutive members of c, wrap-around included
EdgesAlong(g, c) == SelectSeq(g.edges, LAMBDA e : \E i \in 1..Len(c) : e.s = c[i] /\ e.r = c[(i % Len(c)) + 1])

SpanAlong(g, c) == MaxOf({EdgesAlong(g, c)[i].ts : i \in 1..Len(EdgesAlong(g, c))}) - MinOf({EdgesAlong(g, c)[i].ts : i \in 1..Len(EdgesAlong(g, c))})

SumAlong(g, c) == SumSeq([i \in 1..Len(EdgesAlong(g, c)) |-> EdgesAlong(g, c)[i].amt])

IsRotation(m, c) == Len(m) = Len(c) /\ \E shift \in 0..(Len(c) - 1) : \A i \in 1..Len(c) : m[i] = c[((i - 1 + shift) % Len(c)) + 1]

Distinct(s) == \A i, j \in 1..Len(s) : i # j => s[i] # s[j]

\* C1: a second analyze of the same transaction table yields the report of the
\* first one, member order of every ring and order of the entries included
C1_SameReportTwice == (pc = "done" /\ run = 2) => result = first_result

C3_CycleRingShape == \A i \in 1..Len(cycle_rings) :
                        LET ring == cycle_rings[i]
                        IN /\ 3 <= ring.cycle_length /\ ring.cycle_length <= 5
                           /\ ring.cycle_length = Len(ring.members)
                           /\ Distinct(ring.members)
                           /\ \A k \in 1..Len(ring.members) : HasEdge(G, ring.members[k], ring.members[(k % Len(ring.members)) + 1])
                           /\ ring.completed_hours <= 168

\* a ring of 5 members completed in exactly 168 hours is emitted
C3_Witness == \E i \in 1..Len(cycle_rings) : cycle_rings[i].cycle_length = 5 /\ cycle_rings[i].completed_hours = 168

\* the transfers of node v in one direction, each with its counterparty
EventsOf(g, v, inbound) == {[counterparty |-> IF inbound THEN g.edges[i].s ELSE g.edges[i].r, amount |-> g.edges[i].amt, timestamp |-> g.edges[i].ts, id |-> i] :
                              i \in {j \in 1..Len(g.edges) : IF inbound THEN g.edges[j].r = v ELSE g.edges[j].s = v}}

\* the number of distinct counterparties of v in the closed window [t, t + 72]
CountIn(g, v, inbound, t) == Cardinality({e.counterparty : e \in {x \in EventsOf(g, v, inbound) : t <= x.timestamp /\ x.timestamp <= t + 72}})

Anchors(g, v, inbound) == {e.timestamp : e \in EventsOf(g, v, inbound)}

SmurfRingsOf(v, inbound) == {i \in 1..Len(smurf_rings) : smurf_rings[i].hub_account = v /\ smurf_rings[i].pattern_type = (IF inbound THEN "fan_in" ELSE "fan_out")}

\* C4: for every node and direction a smurf ring is emitted exactly when some
\* closed window [t, t + 72h] anchored at one of the node's events holds events of
\* 10 or more distinct counterparties; peak_count is the largest count over the
\* anchored windows and the reported window is the earliest one attaining it
C4_SmurfRingIff == "smurf" \in ran => \A v \in Range(G.nodes), inbound \in BOOLEAN :
                      LET anchors == Anchors(G, v, inbound)
                          found == SmurfRingsOf(v, inbound)
                      IN /\ found # {} <=> \E t \in anchors : CountIn(G, v, inbound, t) >= 10
                         /\ Cardinality(found) <= 1
                         /\ \A i \in found : /\ \A t \in anchors : CountIn(G, v, inbound, t) <= smurf_rings[i].peak_count
                                             /\ smurf_rings[i].peak_window_start \in anchors
                                             /\ smurf_rings[i].peak_window_end = smurf_rings[i].peak_window_start + 72
                                             /\ CountIn(G, v, inbound, smurf_rings[i].peak_window_start) = smurf_rings[i].peak_count
                                             /\ \A t \in anchors : t < smurf_rings[i].peak_window_start => CountIn(G, v, inbound, t) < smurf_rings[i].peak_count

\* a ring with exactly 10 counterparties in its window, the last of them at the
\* very end of the window, while a later anchored window holds 10 as well
C4_Witness == /\ "smurf" \in ran
              /\ \E i \in 1..Len(smurf_rings) :
                    LET ring == smurf_rings[i]
                        inbound == ring.pattern_type = "fan_in"
                        anchors == Anchors(G, ring.hub_account, inbound)
                    IN /\ ring.peak_count = 10
                       /\ ring.peak_window_end \in anchors
                       /\ \E t \in anchors : t > ring.peak_window_start /\ CountIn(G, ring.hub_account, inbound, t) = 10

\* C5: every smurf ring has peak_count >= 10, a window of at most 72 hours, and
\* total_amount equal to the sum of the hub's events in that direction whose
\* timestamp lies in [peak_window_start, peak_window_end]
C5_SmurfRingShape == \A i \in 1..Len(smurf_rings) :
                        LET ring == smurf_rings[i]
                            inside == {e \in EventsOf(G, ring.hub_account, ring.pattern_type = "fan_in") : ring.peak_window_start <= e.timestamp /\ e.timestamp <= ring.peak_window_end}
                            ids == Ascending({e.id : e \in inside})
                        IN /\ ring.peak_count >= 10
                           /\ ring.peak_window_end - ring.peak_window_start <= 72
                           /\ ring.total_amount = SumSeq([k \in 1..Len(ids) |-> G.edges[ids[k]].amt])

\* a smurf ring whose hub has an event before or after the reported window
C5_Witness == \E i \in 1..Len(smurf_rings) :
                 LET ring == smurf_rings[i]
                     all == EventsOf(G, ring.hub_account, ring.pattern_type = "fan_in")
                 IN \E e \in all : e.timestamp > ring.peak_window_end \/ e.timestamp < ring.peak_window_start

\* C6: every shell-chain ring is a simple directed path: chain_length >= 3,
\* chain_length = |members| - 1, members pairwise distinct, a directed edge from
\* every member to the next; chains saved by the broken-intermediate branch included
C6_ShellRingIsPath == \A i \in 1..Len(shell_rings) :
                         LET ring == shell_rings[i]
                         IN /\ ring.chain_length >= 3
                            /\ ring.chain_length = Len(ring.members) - 1
                            /\ Distinct(ring.members)
                            /\ \A k \in 1..(Len(ring.members) - 1) : HasEdge(G, ring.members[k], ring.members[k + 1])

\* the broken-intermediate branch saved a path: a ring of 3 or more hops ends in
\* an account of degree above 3 that has a successor outside the ring
C6_Witness == \E i \in 1..Len(shell_rings) :
                 LET ring == shell_rings[i]
                     last == ring.members[Len(ring.members)]
                 IN /\ ring.chain_length >= 3
                    /\ Degree(G, last) > 3
                    /\ \E w \in Range(Successors(G, last)) : ~Contains(ring.members, w)

InScoreRange(x) == 0 <= x /\ x <= 100 * 100

\* C7: every ring's risk_score and every account's suspicion_score is in
\* [0, 100], as the detectors and score_accounts produce them and after the
\* adjustment of filter_false_positives, negative amounts in the input included
C7_ScoresInRange == /\ \A i \in 1..Len(AllRingsRaw) : InScoreRange(AllRingsRaw[i].risk_score)
                    /\ \A i \in 1..Len(raw_scores) : InScoreRange(raw_scores[i].suspicion_score)
                    /\ \A i \in 1..Len(clean_rings) : InScoreRange(clean_rings[i].risk_score)
                    /\ \A i \in 1..Len(clean_accounts) : InScoreRange(clean_accounts[i].suspicion_score)
                    /\ \A i \in 1..Len(result.fraud_rings) : InScoreRange(result.fraud_rings[i].risk_score)
                    /\ \A i \in 1..Len(result.suspicious_accounts) : InScoreRange(result.suspicious_accounts[i].suspicion_score)

\* the filter has run on an input with a negative amount: a ring's total_amount
\* is below zero and a scored account is a payroll account, so it was adjusted
C7_Witness == /\ pc = "filtered"
              /\ \E i \in 1..Len(AllRingsRaw) : AllRingsRaw[i].total_amount < 0
              /\ \E i \in 1..Len(raw_scores) : raw_scores[i].account_id \in _find_payroll_accounts(df) /\ raw_scores[i].suspicion_score > 0

\* C8: suspicious_accounts is ordered by suspicion_score descending, accounts of
\* equal score in ascending order of account_id
C8_SortedTiesAscending == pc = "done" => \A i, j \in 1..Len(result.suspicious_accounts) :
                             i < j => \/ result.suspicious_accounts[i].suspicion_score > result.suspicious_accounts[j].suspicion_score
                                      \/ /\ result.suspicious_accounts[i].suspicion_score = result.suspicious_accounts[j].suspicion_score
                                         /\ result.suspicious_accounts[i].account_id < result.suspicious_accounts[j].account_id

Legit == _find_merchants(df) \cup _find_payroll_accounts(df)

AllLegit(ring) == \A k \in 1..Len(ring.members) : ring.members[k] \in Legit

\* C9: after filter_false_positives no surviving ring has all its members in
\* merchants \cup payroll, no surviving cycle ring has total_amount < 500, and
\* the surviving rings are exactly the others, in their order, fields unchanged
C9_RingFilter == pc \in {"filtered", "done"} =>
                    /\ \A i \in 1..Len(clean_rings) : ~AllLegit(clean_rings[i])
                    /\ \A i \in 1..Len(clean_rings) : ~(clean_rings[i].pattern_type = "cycle" /\ clean_rings[i].total_amount < 500)
                    /\ clean_rings = SelectSeq(AllRingsRaw, LAMBDA ring : ~AllLegit(ring) /\ ~(ring.pattern_type = "cycle" /\ ring.total_amount < 500))

\* the filter removed a ring of legitimate accounts only and kept a ring that has
\* a legitimate member among others
C9_Witness == /\ pc = "filtered"
              /\ \E i \in 1..Len(AllRingsRaw) : AllLegit(AllRingsRaw[i]) /\ \A j \in 1..Len(clean_rings) : clean_rings[j] # AllRingsRaw[i]
              /\ \E j \in 1..Len(clean_rings) : \E k \in 1..Len(clean_rings[j].members) : clean_rings[j].members[k] \in Legit

IsDigit(c) == c \in {"0", "1", "2", "3", "4", "5", "6", "7", "8", "9"}

PrefixFor(pattern_type) == CASE pattern_type = "cycle" -> PrefixC
                             [] pattern_type \in {"fan_in", "fan_out"} -> PrefixS
                             [] pattern_type = "shell_chain" -> PrefixH

\* C10: the ring_ids in fraud_rings are pairwise distinct, and each is the prefix
\* of its variant (RING_C_, RING_S_, RING_H_) followed by a counter of exactly
\* three digits
C10_RingIdFormat == pc = "done" => \A i \in 1..Len(result.fraud_rings) :
                       LET ring == result.fraud_rings[i]
                       IN /\ \A j \in 1..Len(result.fraud_rings) : i # j => result.fraud_rings[j].ring_id # ring.ring_id
                          /\ Len(ring.ring_id) = Len(PrefixFor(ring.pattern_type)) + 3
                          /\ SubSeq(ring.ring_id, 1, Len(PrefixFor(ring.pattern_type))) = PrefixFor(ring.pattern_type)
                          /\ \A k \in (Len(PrefixFor(ring.pattern_type)) + 1)..Len(ring.ring_id) : IsDigit(ring.ring_id[k])

\* the entry of account acc in the sequence accounts, as a sequence of 0 or 1 entries
EntryOf(accounts, acc) == SelectSeq(accounts, LAMBDA a : a.account_id = acc)

\* round(score * percent / 100, 2) for a score in hundredths
Scaled(score, percent) == (score * percent + 50) \div 100

\* C11: every flagged account the filter keeps was adjusted by exactly one rule:
\* a merchant has its score times 0.30 and the tag fp_merchant_downweight
\* appended, its fan_out tags left and no fp_payroll_downweight, even when it is a
\* payroll account too; otherwise a payroll account loses every tag containing
\* fan_out, has its score times 0.40 and fp_payroll_downweight appended; any
\* other account keeps score and tags
C11_OneAdjustment == pc \in {"filtered", "done"} => \A i \in 1..Len(clean_accounts) :
                        LET after == clean_accounts[i]
                            before == EntryOf(raw_scores, after.account_id)[1]
                        IN /\ Len(EntryOf(raw_scores, after.account_id)) = 1
                           /\ after.account_id \in _find_merchants(df) =>
                                 /\ after.suspicion_score = Scaled(before.suspicion_score, 30)
                                 /\ after.detected_patterns = before.detected_patterns \o <<"fp_merchant_downweight">>
                           /\ (after.account_id \notin _find_merchants(df) /\ after.account_id \in _find_payroll_accounts(df)) =>
                                 /\ after.suspicion_score = Scaled(before.suspicion_score, 40)
                                 /\ after.detected_patterns = SelectSeq(before.detected_patterns, LAMBDA p : p # "fan_out") \o <<"fp_payroll_downweight">>
                           /\ (after.account_id \notin _find_merchants(df) /\ after.account_id \notin _find_payroll_accounts(df)) =>
                                 /\ after.suspicion_score = before.suspicion_score
                                 /\ after.detected_patterns = before.detected_patterns

\* the filter kept an account that is merchant and payroll at once and carries
\* the tag fan_out
C11_Witness == /\ pc = "filtered"
               /\ \E i \in 1..Len(clean_accounts) : /\ clean_accounts[i].account_id \in _find_merchants(df) \cap _find_payroll_accounts(df)
                                                    /\ Contains(clean_accounts[i].detected_patterns, "fan_out")

\* the adjusted score of a scored account, by the rule of its class
AdjustedScore(acc_data) == IF acc_data.account_id \in _find_merchants(df) THEN Scaled(acc_data.suspicion_score, 30)
                           ELSE IF acc_data.account_id \in _find_payroll_accounts(df) THEN Scaled(acc_data.suspicion_score, 40)
                           ELSE acc_data.suspicion_score

\* C12: an account is in the filtered account set, and so in suspicious_accounts,
\* exactly when score_accounts scored it and its adjusted, rounded score is at
\* least 10; every entry of suspicious_accounts has suspicion_score >= 10
C12_KeptIffAtLeastTen == /\ pc \in {"filtered", "done"} =>
                               /\ \A i \in 1..Len(raw_scores) : (AdjustedScore(raw_scores[i]) >= 1000) <=> EntryOf(clean_accounts, raw_scores[i].account_id) # <<>>
                               /\ \A i \in 1..Len(clean_accounts) : EntryOf(raw_scores, clean_accounts[i].account_id) # <<>>
                         /\ pc = "done" =>
                               /\ {result.suspicious_accounts[i].account_id : i \in 1..Len(result.suspicious_accounts)} = {clean_accounts[i].account_id : i \in 1..Len(clean_accounts)}
                               /\ Len(result.suspicious_accounts) = Len(clean_accounts)
                               /\ \A i \in 1..Len(result.suspicious_accounts) : result.suspicious_accounts[i].suspicion_score >= 1000

\* the report is built from a run in which one scored account fell below 10 by
\* its adjustment and was dropped while others were kept
C12_Witness == /\ pc = "done"
               /\ result.suspicious_accounts # <<>>
               /\ \E i \in 1..Len(raw_scores) : /\ raw_scores[i].suspicion_score >= 1000
                                                /\ AdjustedScore(raw_scores[i]) < 1000
                                                /\ EntryOf(clean_accounts, raw_scores[i].account_id) = <<>>

\* the positions in the raw ring list of the rings that contain the account
RingsContaining(acc) == {i \in 1..Len(AllRingsRaw) : Contains(AllRingsRaw[i].members, acc)}

\* the largest risk_score among the rings that contain the account
TopRisk(acc) == MaxOf({AllRingsRaw[i].risk_score : i \in RingsContaining(acc)})

\* C13: the primary ring_id of a scored account with a ring id is the id of a
\* ring that contains the account and has the largest risk_score of all rings
\* containing it, and of several such rings the one inserted first (cycle, then
\* smurf, then shell rings, each in emission order)
C13_PrimaryRing == pc \in {"scored", "filtered"} => \A a \in 1..Len(raw_scores) : raw_scores[a].ring_ids # <<>> =>
                      LET acc == raw_scores[a].account_id
                      IN /\ RingsContaining(acc) # {}
                         /\ raw_scores[a].ring_id = AllRingsRaw[MinOf({i \in RingsContaining(acc) : AllRingsRaw[i].risk_score = TopRisk(acc)})].ring_id

\* a scored account is in three rings or more, two of them share the largest
\* risk_score, and the first ring that contains the account has a smaller one
C13_Witness == /\ pc = "scored"
               /\ \E a \in 1..Len(raw_scores) : LET acc == raw_scores[a].account_id
                                                IN /\ Cardinality(RingsContaining(acc)) >= 3
                                                   /\ Cardinality({i \in RingsContaining(acc) : AllRingsRaw[i].risk_score = TopRisk(acc)}) >= 2
                                                   /\ AllRingsRaw[MinOf(RingsContaining(acc))].risk_score < TopRisk(acc)

\* the detectors that put the account in a ring
DetectorsOf(acc) == {IF AllRingsRaw[i].pattern_type = "cycle" THEN "cycle"
                     ELSE IF AllRingsRaw[i].pattern_type = "shell_chain" THEN "shell"
                     ELSE "smurf" : i \in RingsContaining(acc)}

\* the score of the account without the multi-pattern bonus
ScoreWithoutBonus(acc) == LET mine == SelectSeq(Memberships(cycle_rings, smurf_rings, shell_rings), LAMBDA m : m.acc = acc)
                          IN TotalScore(BestScore(mine, {"cycle"}, WEIGHT_CYCLE), BestScore(mine, {"fan_in", "fan_out"}, WEIGHT_SMURF),
                                        BestScore(mine, {"shell_chain"}, WEIGHT_SHELL), _compute_velocity_scores(df, acc), 0)

\* C14: the multi-pattern bonus of 10 points is added only to an account that
\* has rings of two detectors or more (cycle, smurf, shell); an account whose
\* rings all come from one detector never receives it
C14_BonusNeedsTwoDetectors == pc \in {"scored", "filtered"} => \A a \in 1..Len(raw_scores) :
                                 Cardinality(DetectorsOf(raw_scores[a].account_id)) < 2 => raw_scores[a].suspicion_score = ScoreWithoutBonus(raw_scores[a].account_id)

\* the accounts that send or receive a retained transaction of the input
InputAccounts == {csv[i].s : i \in {j \in 1..Len(csv) : ~csv[j].na}} \cup {csv[i].r : i \in {j \in 1..Len(csv) : ~csv[j].na}}

\* C15: every account_id of suspicious_accounts and every member of every ring
\* of fraud_rings is the sender or the receiver of a retained transaction of the
\* input, and so a node of the graph
C15_ReportedAccountsAreNodes == pc = "done" =>
                                   /\ \A i \in 1..Len(result.suspicious_accounts) : result.suspicious_accounts[i].account_id \in InputAccounts \cap Range(G.nodes)
                                   /\ \A i \in 1..Len(result.fraud_rings) : Range(result.fraud_rings[i].member_accounts) \subseteq InputAccounts \cap Range(G.nodes)

\* a report with rings and accounts for an input that has a dropped row naming
\* an account no retained row names
C15_Witness == /\ pc = "done"
               /\ result.suspicious_accounts # <<>>
               /\ result.fraud_rings # <<>>
               /\ \E i \in 1..Len(csv) : csv[i].na /\ csv[i].r \notin InputAccounts

\* the first ring among the filtered rings that has the ring id
FirstWithId(rid) == clean_rings[MinOf({i \in 1..Len(clean_rings) : clean_rings[i].ring_id = rid})]

\* C16: fraud_rings holds each ring_id of the filtered rings exactly once, with
\* the data of the first ring of that id, in descending order of risk_score
C16_FraudRingsOnceDescending == pc = "done" =>
                                   /\ {result.fraud_rings[i].ring_id : i \in 1..Len(result.fraud_rings)} = {clean_rings[i].ring_id : i \in 1..Len(clean_rings)}
                                   /\ \A i, j \in 1..Len(result.fraud_rings) : i < j =>
                                         /\ result.fraud_rings[i].ring_id # result.fraud_rings[j].ring_id
                                         /\ result.fraud_rings[i].risk_score >= result.fraud_rings[j].risk_score
                                   /\ \A i \in 1..Len(result.fraud_rings) :
                                         /\ result.fraud_rings[i].risk_score = FirstWithId(result.fraud_rings[i].ring_id).risk_score
                                         /\ result.fraud_rings[i].member_accounts = FirstWithId(result.fraud_rings[i].ring_id).members

\* the report lists three rings or more, of different risk_score, that the
\* filter returned in another order than the descending one
C16_Witness == /\ pc = "done"
               /\ Len(result.fraud_rings) >= 3
               /\ result.fraud_rings[1].risk_score > result.fraud_rings[Len(result.fraud_rings)].risk_score
               /\ \E i, j \in 1..Len(clean_rings) : i < j /\ clean_rings[i].risk_score < clean_rings[j].risk_score

\* the simple directed paths of 3 to MAX_CHAIN_LENGTH hops whose members between
\* the first and the last all have at most MAX_SHELL_DEGREE edges
ShellPaths(g) == UNION {{p \in PathsOfLen(g, k) : \A i \in 2..(k - 1) : Degree(g, p[i]) <= MAX_SHELL_DEGREE} : k \in (MIN_CHAIN_LENGTH + 1)..(MAX_CHAIN_LENGTH + 1)}

HubPosition(ring) == MinOf({k \in 1..Len(G.nodes) : G.nodes[k] = ring.hub_account})

\* C18: the smurf rings carry the ids RING_S_001, RING_S_002, ... in emission
\* order without gaps; the hubs follow the graph's node order, and a node that
\* yields both rings has its fan-in ring immediately before its fan-out ring,
\* under two distinct ids
C18_SmurfIdsInOrder == "smurf" \in ran =>
                          /\ \A i \in 1..Len(smurf_rings) : smurf_rings[i].ring_id = PrefixS \o Fmt03d(i)
                          /\ \A i, j \in 1..Len(smurf_rings) : i < j =>
                                /\ smurf_rings[i].ring_id # smurf_rings[j].ring_id
                                /\ HubPosition(smurf_rings[i]) <= HubPosition(smurf_rings[j])
                                /\ smurf_rings[i].hub_account = smurf_rings[j].hub_account =>
                                      (j = i + 1 /\ smurf_rings[i].pattern_type = "fan_in" /\ smurf_rings[j].pattern_type = "fan_out")

\* a fan-in ring of a hub that comes first in the graph, then the fan-in ring and
\* the fan-out ring of a hub with a smaller account number
C18_Witness == /\ "smurf" \in ran
               /\ Len(smurf_rings) = 3
               /\ smurf_rings[1].hub_account > smurf_rings[2].hub_account
               /\ smurf_rings[2].hub_account = smurf_rings[3].hub_account
               /\ smurf_rings[2].pattern_type = "fan_in"

\* the rings are numbered 001, 002, ... under the prefix
IdsFromOne(rings, prefix) == \A i \in 1..Len(rings) : rings[i].ring_id = prefix \o Fmt03d(i)

\* one step within the detection stage: the graph and the table stay as they
\* are, only the detector that runs writes its list, and what it writes is what
\* it yields on the graph alone, numbered from 1
DetectorStep == (pc = "detect" /\ pc' = "detect") =>
                   /\ G' = G
                   /\ df' = df
                   /\ Cardinality(ran' \ ran) = 1
                   /\ IF "cycle" \in ran' \ ran THEN cycle_rings' = detect_cycles(G) /\ IdsFromOne(cycle_rings', PrefixC) ELSE cycle_rings' = cycle_rings
                   /\ IF "smurf" \in ran' \ ran THEN (\E seed \in HashSeeds : smurf_rings' = detect_smurfing(G, seed)) /\ IdsFromOne(smurf_rings', PrefixS) ELSE smurf_rings' = smurf_rings
                   /\ IF "shell" \in ran' \ ran THEN shell_rings' = detect_shell_chains(G) /\ IdsFromOne(shell_rings', PrefixH) ELSE shell_rings' = shell_rings

\* C19: the three detectors are independent: each leaves the graph and the
\* transaction table unchanged and numbers its rings from its own counter, so in
\* whatever order they run each list is the one the detector yields on the graph
\* alone, the list of the sequential order of analyze
C19_DetectorsIndependent == [][DetectorStep]_vars

\* the shell and the smurfing detector have run, the latter finding rings, before
\* the cycle detector, which analyze runs first, on a graph that has cycles
C19_Witness == /\ pc = "detect"
               /\ ran = {"smurf", "shell"}
               /\ smurf_rings # <<>>
               /\ DirectedCycles(G) # {}

\* C20: in the report the ring_id of every entry of suspicious_accounts is the
\* ring_id of a ring of fraud_rings: the primary ring of a reported account is
\* never a ring the false-positive filter removed
C20_PrimaryRingReported == pc = "done" => \A i \in 1..Len(result.suspicious_accounts) :
                              \E j \in 1..Len(result.fraud_rings) : result.fraud_rings[j].ring_id = result.suspicious_accounts[i].ring_id

\* the accounts of suspicious_accounts
ReportedAccounts == {result.suspicious_accounts[i].account_id : i \in 1..Len(result.suspicious_accounts)}

\* C21: in the report every ring of fraud_rings has a member that is in
\* suspicious_accounts: a ring does not survive when all its members were
\* dropped for a final score below 10
C21_RingHasReportedMember == pc = "done" => \A i \in 1..Len(result.fraud_rings) :
                                Range(result.fraud_rings[i].member_accounts) \cap ReportedAccounts # {}

\* C22: the member list of every smurf ring starts with the hub account, has
\* peak_count + 1 entries and holds no account twice, also when the hub has a
\* transaction with itself inside the peak window
C22_SmurfMembersDistinct == \A i \in 1..Len(smurf_rings) :
                               /\ smurf_rings[i].members[1] = smurf_rings[i].hub_account
                               /\ Len(smurf_rings[i].members) = smurf_rings[i].peak_count + 1
                               /\ Distinct(smurf_rings[i].members)

\* C23: an account that is a member of no ring of the three detectors is never
\* scored and never in suspicious_accounts, whatever its velocity spike; no
\* entry of suspicious_accounts has the ring_id UNKNOWN
C23_OnlyRingMembersReported == /\ pc \in {"scored", "filtered", "done"} =>
                                     \A i \in 1..Len(raw_scores) : RingsContaining(raw_scores[i].account_id) # {} /\ raw_scores[i].ring_id # UNKNOWN
                               /\ pc = "done" =>
                                     \A i \in 1..Len(result.suspicious_accounts) :
                                        /\ RingsContaining(result.suspicious_accounts[i].account_id) # {}
                                        /\ result.suspicious_accounts[i].ring_id # UNKNOWN

\* the report lists ring members while an account of the input that is in no
\* ring and has a velocity score of 10 points or more is left out
C23_Witness == /\ pc = "done"
               /\ result.suspicious_accounts # <<>>
               /\ \E acc \in InputAccounts : /\ RingsContaining(acc) = {}
                                             /\ _compute_velocity_scores(df, acc).num >= 10 * _compute_velocity_scores(df, acc).den
                                             /\ acc \notin ReportedAccounts

====
